---------------------------- MODULE Spec2Model ----------------------------
(***************************************************************************)
(* A model of svd.cpp: singular value decomposition (svd), sorting of the  *)
(* decomposition (svd_sort) and the pseudo-inverse (svd_invs).             *)
(*                                                                         *)
(* The code computes in IEEE-754 binary64 (double).  The model computes in *)
(* a binary floating-point format of the same shape with a narrower        *)
(* significand (P bits instead of 53) and a narrower exponent range:       *)
(* signed zeros, subnormals, infinities, NaN, round-to-nearest-even,       *)
(* overflow to infinity and gradual underflow are those of IEEE-754.       *)
(* Arrays are functions on 0..len-1, as in the C source.                   *)
(***************************************************************************)
EXTENDS Integers, Sequences, FiniteSets, TLC

(***************************************************************************)
(* Bounds of the model.                                                    *)
(***************************************************************************)
P == 4          \* bits of the significand (binary64: 53)
Emax == 4       \* largest exponent of the last significand bit (binary64: 971)
EminNeg == 60   \* minus the smallest such exponent (binary64: 1074)
MaxN == 3       \* svd: columns n range over 1..MaxN
MaxM == 2       \* svd: rows m range over 1..MaxM
MaxCalls == 2   \* svd_sort is called up to MaxCalls times in a row

Emin == 0 - EminNeg

(***************************************************************************)
(* Program constants.                                                      *)
(***************************************************************************)
SVD_NMAX == 40

(***************************************************************************)
(* The floating-point format: a value is NaN, an infinity of sign s, or    *)
(* the finite number s * m * 2^e with 0 <= m < 2^P and Emin <= e <= Emax,  *)
(* m >= 2^(P-1) unless e = Emin (subnormal or zero).                       *)
(***************************************************************************)
NaN == [k |-> "nan", s |-> 1, m |-> 0, e |-> 0]
Inf(sg) == [k |-> "inf", s |-> sg, m |-> 0, e |-> 0]
Fin(sg, mm, ee) == [k |-> "fin", s |-> sg, m |-> mm, e |-> ee]
FZero(sg) == Fin(sg, 0, Emin)

IsNaN(a) == a.k = "nan"
IsInf(a) == a.k = "inf"
IsFin(a) == a.k = "fin"
IsZero(a) == a.k = "fin" /\ a.m = 0

(* Body applied to the value of v: the initialisation of a local variable. *)
Bind(v, Body(_)) == CHOOSE r \in {Body(x) : x \in {v}} : TRUE
Bind2(v1, v2, Body(_, _)) == CHOOSE r \in {Body(x, y) : x \in {v1}, y \in {v2}} : TRUE

(* The number of bits of the integer M, 0 <= M < 2^30: the b in lo..hi    *)
(* with M < 2^b and, unless b = 0, 2^(b-1) <= M.                           *)
RECURSIVE BitLenIn(_, _, _)
BitLenIn(M, lo, hi) ==
    IF lo >= hi THEN lo
    ELSE Bind((lo + hi) \div 2,
              LAMBDA mid: IF M < 2^mid THEN BitLenIn(M, lo, mid)
                          ELSE BitLenIn(M, mid + 1, hi))
BitLen(M) == BitLenIn(M, 0, 30)

(* The float nearest to sg * M * 2^E (M >= 0 an integer); sticky says the  *)
(* exact value lies strictly above M * 2^E and below (M+1) * 2^E.          *)
Round(sg, M0, E0, sticky) ==
    Bind2(M0, E0, LAMBDA M, E:
    IF M = 0 THEN FZero(sg)
    ELSE Bind(BitLen(M), LAMBDA b:
         LET sh == IF E + (b - P) < Emin THEN Emin - E ELSE b - P
             e1 == E + sh
         IN  IF sh <= 0
             THEN IF e1 > Emax THEN Inf(sg) ELSE Fin(sg, M * 2^(0 - sh), e1)
             ELSE IF sh >= b + 2 THEN FZero(sg)
             ELSE Bind(IF (M % 2^sh) > 2^(sh - 1)
                          \/ ((M % 2^sh) = 2^(sh - 1)
                              /\ (sticky \/ (M \div 2^sh) % 2 = 1))
                       THEN (M \div 2^sh) + 1 ELSE M \div 2^sh,
                       LAMBDA q1:
                  LET m2 == IF q1 = 2^P THEN 2^(P - 1) ELSE q1
                      e2 == IF q1 = 2^P THEN e1 + 1 ELSE e1
                  IN  IF e2 > Emax THEN Inf(sg)
                      ELSE IF m2 = 0 THEN FZero(sg) ELSE Fin(sg, m2, e2))))

FromInt(z) == IF z < 0 THEN Round(0 - 1, 0 - z, 0, FALSE) ELSE Round(1, z, 0, FALSE)

FNeg(a0) == Bind(a0, LAMBDA a: IF IsNaN(a) THEN NaN ELSE [a EXCEPT !.s = 0 - a.s])
FAbs(a0) == Bind(a0, LAMBDA a: IF IsNaN(a) THEN NaN ELSE [a EXCEPT !.s = 1])
FCopysign(a0, b0) ==
    Bind2(a0, b0, LAMBDA a, b: IF IsNaN(a) THEN NaN ELSE [a EXCEPT !.s = b.s])

(* -1, 0 or 1 as |a| < |b|, |a| = |b|, |a| > |b|; neither is NaN. *)
CmpMag(a, b) ==
    IF IsInf(a) THEN (IF IsInf(b) THEN 0 ELSE 1)
    ELSE IF IsInf(b) THEN 0 - 1
    ELSE IF a.e # b.e /\ a.m # 0 /\ b.m # 0 THEN (IF a.e > b.e THEN 1 ELSE 0 - 1)
    ELSE IF a.m > b.m THEN 1 ELSE IF a.m < b.m THEN 0 - 1 ELSE 0
(* -1, 0 or 1 as a < b, a = b, a > b; neither is NaN. *)
Cmp(a0, b0) ==
    Bind2(a0, b0, LAMBDA a, b:
    IF IsZero(a) /\ IsZero(b) THEN 0
    ELSE IF a.s # b.s THEN (IF IsZero(a) THEN 0 - b.s ELSE a.s)
    ELSE a.s * CmpMag(a, b))
Ordered(a0, b0) == Bind2(a0, b0, LAMBDA a, b: ~IsNaN(a) /\ ~IsNaN(b))

FLt(a0, b0) == Bind2(a0, b0, LAMBDA a, b: Ordered(a, b) /\ Cmp(a, b) < 0)
FGt(a0, b0) == Bind2(a0, b0, LAMBDA a, b: Ordered(a, b) /\ Cmp(a, b) > 0)
FEq(a0, b0) == Bind2(a0, b0, LAMBDA a, b: Ordered(a, b) /\ Cmp(a, b) = 0)
FGe(a0, b0) == Bind2(a0, b0, LAMBDA a, b: Ordered(a, b) /\ Cmp(a, b) >= 0)
FLe(a0, b0) == Bind2(a0, b0, LAMBDA a, b: Ordered(a, b) /\ Cmp(a, b) <= 0)
FNe(a, b) == ~FEq(a, b)

FAdd(a0, b0) ==
    Bind2(a0, b0, LAMBDA a, b:
    IF IsNaN(a) \/ IsNaN(b) THEN NaN
    ELSE IF IsInf(a) THEN (IF IsInf(b) /\ b.s # a.s THEN NaN ELSE a)
    ELSE IF IsInf(b) THEN b
    ELSE IF a.m = 0 /\ b.m = 0 THEN FZero(IF a.s = b.s THEN a.s ELSE 1)
    ELSE IF a.m = 0 THEN b
    ELSE IF b.m = 0 THEN a
    ELSE LET hi == IF a.e >= b.e THEN a ELSE b
             lo == IF a.e >= b.e THEN b ELSE a
             gap == hi.e - lo.e
         IN  IF gap > P + 2 THEN hi
             ELSE Bind(hi.s * hi.m * 2^gap + lo.s * lo.m, LAMBDA z:
                  IF z = 0 THEN FZero(1)
                  ELSE IF z < 0 THEN Round(0 - 1, 0 - z, lo.e, FALSE)
                  ELSE Round(1, z, lo.e, FALSE)))
FSub(a, b) == FAdd(a, FNeg(b))

FMul(a0, b0) ==
    Bind2(a0, b0, LAMBDA a, b:
    IF IsNaN(a) \/ IsNaN(b) THEN NaN
    ELSE IF IsInf(a) \/ IsInf(b)
         THEN (IF IsZero(a) \/ IsZero(b) THEN NaN ELSE Inf(a.s * b.s))
    ELSE Round(a.s * b.s, a.m * b.m, a.e + b.e, FALSE))

FDiv(a0, b0) ==
    Bind2(a0, b0, LAMBDA a, b:
    IF IsNaN(a) \/ IsNaN(b) THEN NaN
    ELSE IF IsInf(a) THEN (IF IsInf(b) THEN NaN ELSE Inf(a.s * b.s))
    ELSE IF IsInf(b) THEN FZero(a.s * b.s)
    ELSE IF b.m = 0 THEN (IF a.m = 0 THEN NaN ELSE Inf(a.s * b.s))
    ELSE LET t == 2 * P + 2
             num == a.m * 2^t
         IN  Round(a.s * b.s, num \div b.m, a.e - b.e - t, num % b.m # 0))

(* The integer part of the square root of N: r plus the bits from bit down *)
(* that keep the square at most N.                                         *)
RECURSIVE ISqrtBits(_, _, _)
ISqrtBits(N, bit0, r0) ==
    Bind2(bit0, r0, LAMBDA bit, r:
    IF bit = 0 THEN r
    ELSE IF (r + bit) * (r + bit) <= N THEN ISqrtBits(N, bit \div 2, r + bit)
    ELSE ISqrtBits(N, bit \div 2, r))
(* 0 <= N < 2^30 *)
ISqrt(N) == ISqrtBits(N, 2^14, 0)

(* The correctly rounded square root of the integer M * 2^E, M > 0. *)
SqrtRound(M0, E0) ==
    Bind2(M0, E0, LAMBDA M, E:
    Bind(BitLen(M), LAMBDA b:
    LET want == 2 * P + 4
        t0 == IF b >= want THEN 0 ELSE want - b
        t == IF (E - t0) % 2 = 0 THEN t0 ELSE t0 + 1
    IN  Bind(M * 2^t, LAMBDA N:
        Bind(ISqrt(N), LAMBDA r:
        Round(1, r, (E - t) \div 2, r * r # N)))))

FSqrt(a0) ==
    Bind(a0, LAMBDA a:
    IF IsNaN(a) THEN NaN
    ELSE IF IsZero(a) THEN a
    ELSE IF a.s < 0 THEN NaN
    ELSE IF IsInf(a) THEN a
    ELSE SqrtRound(a.m, a.e))

FHypot(a0, b0) ==
    Bind2(a0, b0, LAMBDA a, b:
    IF IsInf(a) \/ IsInf(b) THEN Inf(1)
    ELSE IF IsNaN(a) \/ IsNaN(b) THEN NaN
    ELSE IF a.m = 0 THEN FAbs(b)
    ELSE IF b.m = 0 THEN FAbs(a)
    ELSE LET hi == IF a.e >= b.e THEN a ELSE b
             lo == IF a.e >= b.e THEN b ELSE a
             gap == hi.e - lo.e
         IN  IF gap > P + 2 THEN FAbs(hi)
             ELSE SqrtRound(hi.m * 2^gap * hi.m * 2^gap + lo.m * lo.m, 2 * lo.e))

Zero == FZero(1)
One == FromInt(1)
Half == FDiv(One, FromInt(2))
(* A finite value within a factor of two of the largest finite value, as   *)
(* 1e308 is for binary64.                                                  *)
Huge == Fin(1, 2^(P - 1), Emax)

(* acc + Term(lo) + ... + Term(hi), added in this order. *)
RECURSIVE SumOver(_, _, _, _)
SumOver(Term(_), lo, hi, acc) ==
    IF lo > hi THEN acc ELSE SumOver(Term, lo + 1, hi, FAdd(acc, Term(lo)))

(* Columns a and b of M (rows 0..rows-1) rotated by (c, s). *)
Rotate(M, rows, a, b, c, s) ==
    [r \in 0..(rows - 1) |->
        [M[r] EXCEPT ![a] = FAdd(FMul(M[r][a], c), FMul(M[r][b], s)),
                     ![b] = FSub(FMul(M[r][b], c), FMul(M[r][a], s))]]

VARIABLES
    n, m,       \* number of columns, number of rows
    A, w, V,    \* the matrix A (U on return), the singular values, V
    A0,         \* the caller's matrix as passed to svd
    pc,         \* the position in svd, or the function that returned last
    i, k, l, its,           \* svd's loop indexes and pass counter
    rv1, g, scale, tst1,    \* svd's locals that live across iterations
    oob,        \* the array access that left its array, "" when none did
    pos, wold, aold, vold,  \* svd_sort's locals, as its last call left them
    calls,      \* the number of calls of svd_sort
    AT,         \* the pseudo-inverse svd_invs writes
    divs,       \* the indexes c whose w[c] svd_invs divided by
    line,       \* the line of main that runs next, 0 once the process was killed
    pj, pi,     \* matrix_print's row and column indexes
    W,          \* main's matrix W, with the singular values on its diagonal
    outside     \* the accesses of main made outside a matrix's rows and columns

svdlocals == <<A0, i, k, l, its, rv1, g, scale, tst1, oob>>
sortlocals == <<pos, wold, aold, vold, calls>>
invslocals == <<AT, divs>>
mainlocals == <<line, pj, pi, W, outside>>
vars == <<n, m, A, w, V, pc, svdlocals, sortlocals, invslocals, mainlocals>>

Rows == 0..(m - 1)
Cols == 0..(n - 1)

(***************************************************************************)
(* svd: Householder reduction to bidiagonal form, iteration i.             *)
(***************************************************************************)
(* The reflection of column i, rows i..m-1 (taken when i < m). *)
HouseholderColumn(M) ==
    Bind(SumOver(LAMBDA r: FAbs(M[r][i]), i, m - 1, Zero), LAMBDA sc:
    IF FNe(sc, Zero)
    THEN Bind([r \in Rows |-> IF r >= i THEN [M[r] EXCEPT ![i] = FDiv(M[r][i], sc)]
                              ELSE M[r]], LAMBDA A1:
         Bind(SumOver(LAMBDA r: FMul(A1[r][i], A1[r][i]), i, m - 1, Zero), LAMBDA s:
         Bind(A1[i][i], LAMBDA f:
         Bind(FNeg(FCopysign(FSqrt(s), f)), LAMBDA gg:
         Bind(FSub(FMul(f, gg), s), LAMBDA h:
         Bind([A1 EXCEPT ![i][i] = FSub(f, gg)], LAMBDA A2:
         Bind([j \in Cols |->
                 IF j >= i + 1
                 THEN FDiv(SumOver(LAMBDA r: FMul(A2[r][i], A2[r][j]), i, m - 1, Zero), h)
                 ELSE Zero], LAMBDA fj:
         Bind([r \in Rows |-> [j \in Cols |->
                 IF r >= i /\ j >= i + 1
                 THEN FAdd(A2[r][j], FMul(fj[j], A2[r][i]))
                 ELSE A2[r][j]]], LAMBDA A3:
         [A |-> [r \in Rows |-> IF r >= i THEN [A3[r] EXCEPT ![i] = FMul(A3[r][i], sc)]
                                ELSE A3[r]],
          scale |-> sc, g |-> gg]))))))))
    ELSE [A |-> M, scale |-> sc, g |-> Zero])

(* The reflection of row i, columns l..n-1 with l = i + 1 (taken when      *)
(* i < m and i < n-1).                                                     *)
HouseholderRow(M, rv) ==
    Bind2(i + 1, SumOver(LAMBDA j: FAbs(M[i][j]), i + 1, n - 1, Zero), LAMBDA l0, sc:
    IF FNe(sc, Zero)
    THEN Bind([M EXCEPT ![i] = [j \in Cols |-> IF j >= l0 THEN FDiv(M[i][j], sc)
                                               ELSE M[i][j]]], LAMBDA A1:
         Bind(SumOver(LAMBDA j: FMul(A1[i][j], A1[i][j]), l0, n - 1, Zero), LAMBDA s:
         Bind(A1[i][l0], LAMBDA f:
         Bind(FNeg(FCopysign(FSqrt(s), f)), LAMBDA gg:
         Bind(FSub(FMul(f, gg), s), LAMBDA h:
         Bind([A1 EXCEPT ![i][l0] = FSub(f, gg)], LAMBDA A2:
         Bind([j \in Cols |-> IF j >= l0 THEN FDiv(A2[i][j], h) ELSE rv[j]], LAMBDA rv2:
         Bind([r \in Rows |->
                 IF r >= l0
                 THEN SumOver(LAMBDA j: FMul(A2[r][j], A2[i][j]), l0, n - 1, Zero)
                 ELSE Zero], LAMBDA sr:
         Bind([r \in Rows |-> [j \in Cols |->
                 IF r >= l0 /\ j >= l0
                 THEN FAdd(A2[r][j], FMul(sr[r], rv2[j]))
                 ELSE A2[r][j]]], LAMBDA A3:
         [A |-> [A3 EXCEPT ![i] = [j \in Cols |-> IF j >= l0 THEN FMul(A3[i][j], sc)
                                                  ELSE A3[i][j]]],
          scale |-> sc, g |-> gg, rv1 |-> rv2])))))))))
    ELSE [A |-> M, scale |-> sc, g |-> Zero, rv1 |-> rv])

Householder ==
    /\ pc = "householder"
    /\ \E rva \in {[rv1 EXCEPT ![i] = FMul(scale, g)]} :
       \E col \in {IF i < m THEN HouseholderColumn(A)
                   ELSE [A |-> A, scale |-> Zero, g |-> Zero]} :
       \E wa \in {[w EXCEPT ![i] = FMul(col.scale, col.g)]} :
       \E row \in {IF i < m /\ i < n - 1 THEN HouseholderRow(col.A, rva)
                   ELSE [A |-> col.A, scale |-> Zero, g |-> Zero, rv1 |-> rva]} :
       \E tmp \in {FAdd(FAbs(wa[i]), FAbs(row.rv1[i]))} :
           /\ A' = row.A
           /\ w' = wa
           /\ rv1' = row.rv1
           /\ g' = row.g
           /\ scale' = row.scale
           /\ tst1' = IF FGt(tst1, tmp) THEN tst1 ELSE tmp
    /\ l' = i + 1
    /\ IF i + 1 < n THEN i' = i + 1 /\ pc' = pc
                    ELSE i' = n - 1 /\ pc' = "right"
    /\ UNCHANGED <<n, m, mainlocals, V, A0, k, its, oob, sortlocals, invslocals>>

(***************************************************************************)
(* svd: accumulation of right-hand transformations, iteration i.           *)
(***************************************************************************)
(* The iteration reads row i of A, which the matrix has only when i < m. *)
RightReadsRow == i < n - 1 /\ FNe(g, Zero)

(* V after the transformation of the iteration is applied (g # 0). *)
RightTransform ==
    Bind([r \in Cols |-> IF r >= l
                         THEN [V[r] EXCEPT ![i] = FDiv(FDiv(A[i][r], A[i][l]), g)]
                         ELSE V[r]], LAMBDA Va:
    Bind([j \in Cols |->
            IF j >= l THEN SumOver(LAMBDA c: FMul(A[i][c], Va[c][j]), l, n - 1, Zero)
            ELSE Zero], LAMBDA sj:
    [r \in Cols |-> [j \in Cols |->
        IF r >= l /\ j >= l THEN FAdd(Va[r][j], FMul(sj[j], Va[r][i]))
        ELSE Va[r][j]]]))

RightAccum ==
    /\ pc = "right"
    /\ ~(RightReadsRow /\ i >= m)
    /\ \E Vb \in {IF RightReadsRow THEN RightTransform ELSE V} :
       \E Vc \in {IF i < n - 1
                  THEN [r \in Cols |-> [j \in Cols |->
                          IF (r = i /\ j >= l) \/ (j = i /\ r >= l) THEN Zero
                          ELSE Vb[r][j]]]
                  ELSE Vb} :
           V' = [Vc EXCEPT ![i][i] = One]
    /\ g' = rv1[i]
    /\ l' = i
    /\ IF i > 0 THEN i' = i - 1 /\ pc' = pc
                ELSE i' = (IF m < n THEN m - 1 ELSE n - 1) /\ pc' = "left"
    /\ UNCHANGED <<n, m, mainlocals, A, w, A0, k, its, rv1, scale, tst1, oob, sortlocals, invslocals>>

(***************************************************************************)
(* svd: accumulation of left-hand transformations, iteration i.            *)
(***************************************************************************)
(* A after the transformation of the iteration is applied (g # 0). *)
LeftTransform(A1, l0, gg) ==
    Bind([j \in Cols |->
            IF j >= l0
            THEN FDiv(FDiv(SumOver(LAMBDA r: FMul(A1[r][i], A1[r][j]), l0, m - 1, Zero),
                           A1[i][i]), gg)
            ELSE Zero], LAMBDA fj:
    Bind([r \in Rows |-> [j \in Cols |->
            IF r >= i /\ j >= l0 THEN FAdd(A1[r][j], FMul(fj[j], A1[r][i]))
            ELSE A1[r][j]]], LAMBDA A2:
    [r \in Rows |-> IF r >= i THEN [A2[r] EXCEPT ![i] = FDiv(A2[r][i], gg)]
                    ELSE A2[r]]))

LeftAccum ==
    /\ pc = "left"
    /\ \E l0 \in {i + 1} : \E gg \in {w[i]} :
       \E A1 \in {IF i # n - 1
                  THEN [A EXCEPT ![i] = [j \in Cols |-> IF j >= l0 THEN Zero ELSE A[i][j]]]
                  ELSE A} :
       \E A3 \in {IF FNe(gg, Zero) THEN LeftTransform(A1, l0, gg)
                  ELSE [r \in Rows |-> IF r >= i THEN [A1[r] EXCEPT ![i] = Zero]
                                       ELSE A1[r]]} :
           /\ A' = [A3 EXCEPT ![i][i] = FAdd(A3[i][i], One)]
           /\ g' = gg
           /\ l' = l0
    /\ i' = i - 1
    /\ IF i > 0 THEN pc' = pc /\ UNCHANGED <<k, its>>
                ELSE pc' = "diag" /\ k' = n - 1 /\ its' = 0
    /\ UNCHANGED <<n, m, mainlocals, w, V, A0, rv1, scale, tst1, oob, sortlocals, invslocals>>

(***************************************************************************)
(* svd: diagonalization of the bidiagonal form, one pass of while (1) for  *)
(* the singular value k.  The scratch locals c, f, h, s, x, y, z (and g,   *)
(* i within a pass) are dead between passes and are not part of the state. *)
(***************************************************************************)
(* The test for splitting from l = ll downwards; oob tells that the search *)
(* read w[l - 1] with l = 0.                                               *)
RECURSIVE SplitSearch(_, _)
SplitSearch(ll0, l10) ==
    Bind2(ll0, l10, LAMBDA ll, l1:
    IF FEq(FAdd(FAbs(rv1[ll]), tst1), tst1)
    THEN [l |-> ll, l1 |-> l1, docancellation |-> FALSE, oob |-> FALSE]
    ELSE IF ll - 1 < 0
    THEN [l |-> ll, l1 |-> ll - 1, docancellation |-> TRUE, oob |-> TRUE]
    ELSE IF FEq(FAdd(FAbs(w[ll - 1]), tst1), tst1)
    THEN [l |-> ll, l1 |-> ll - 1, docancellation |-> TRUE, oob |-> FALSE]
    ELSE SplitSearch(ll - 1, ll - 1))

Search == SplitSearch(k, 0 - 1)

(* The cancellation of rv1[l] from index ii on; st holds A, w and rv1. *)
RECURSIVE Cancellation(_, _, _, _, _)
Cancellation(ii, c, s, l1, st) ==
    IF ii > k THEN st
    ELSE Bind2(FMul(s, st.rv1[ii]), [st.rv1 EXCEPT ![ii] = FMul(c, st.rv1[ii])],
               LAMBDA f, rv:
         IF FEq(FAdd(FAbs(f), tst1), tst1) THEN [st EXCEPT !.rv1 = rv]
         ELSE Bind2(st.w[ii], FHypot(f, st.w[ii]), LAMBDA gg, h:
              Bind2(FDiv(gg, h), FDiv(FNeg(f), h), LAMBDA c1, s1:
              Bind2(ii + 1, [A |-> Rotate(st.A, m, l1, ii, c1, s1),
                             w |-> [st.w EXCEPT ![ii] = h],
                             rv1 |-> rv], LAMBDA i2, st2:
              Cancellation(i2, c1, s1, l1, st2)))))

(* A, w and rv1 after the search sr and the cancellation it asks for. *)
AfterCancellation(sr) ==
    IF sr.docancellation
    THEN Cancellation(sr.l, Zero, One, sr.l1, [A |-> A, w |-> w, rv1 |-> rv1])
    ELSE [A |-> A, w |-> w, rv1 |-> rv1]

(* The shift from the bottom 2 by 2 minor. *)
Shift(x, y, z, gg, h) ==
    Bind(FMul(Half,
              FSub(FAdd(FMul(FDiv(FAdd(gg, z), h), FDiv(FSub(gg, z), y)),
                        FDiv(y, h)),
                   FDiv(h, y))), LAMBDA f1:
    Bind(FHypot(f1, One), LAMBDA g1:
    FAdd(FSub(x, FMul(FDiv(z, x), z)),
         FMul(FDiv(h, x), FSub(FDiv(y, FAdd(f1, FCopysign(g1, f1))), h)))))

(* The QR transformation from index i1 on; st holds c, s, f, x, A, V, w, rv1. *)
RECURSIVE QRTransformation(_, _)
QRTransformation(i1, st) ==
    IF i1 >= k THEN st
    ELSE Bind2(i1 + 1, st.w[i1 + 1], LAMBDA ii, y0:
         Bind2(FMul(st.s, st.rv1[ii]), FMul(st.c, st.rv1[ii]), LAMBDA h1, g1:
         Bind(FHypot(st.f, h1), LAMBDA z1:
         Bind2(FDiv(st.f, z1), FDiv(h1, z1), LAMBDA c1, s1:
         Bind2(FAdd(FMul(st.x, c1), FMul(g1, s1)), FSub(FMul(g1, c1), FMul(st.x, s1)),
               LAMBDA f1, g2:
         Bind2(FMul(y0, s1), FMul(y0, c1), LAMBDA h2, y1:
         Bind(FHypot(f1, h2), LAMBDA z2:
         Bind2(IF FNe(z2, Zero) THEN FDiv(f1, z2) ELSE c1,
               IF FNe(z2, Zero) THEN FDiv(h2, z2) ELSE s1, LAMBDA c2, s2:
         Bind([c |-> c2, s |-> s2,
               f |-> FAdd(FMul(c2, g2), FMul(s2, y1)),
               x |-> FSub(FMul(c2, y1), FMul(s2, g2)),
               A |-> Rotate(st.A, m, i1, ii, c2, s2),
               V |-> Rotate(st.V, n, i1, ii, c1, s1),
               w |-> [st.w EXCEPT ![i1] = z2],
               rv1 |-> [st.rv1 EXCEPT ![i1] = z1]], LAMBDA st2:
         QRTransformation(ii, st2))))))))))

(* The array access of the next step that leaves its array, "" if none. *)
OobAccess ==
    IF pc = "right" /\ RightReadsRow /\ i >= m THEN "A[i][j]"
    ELSE IF pc = "diag" /\ its + 1 <= SVD_NMAX
    THEN Bind(Search, LAMBDA sr:
         IF sr.oob THEN "w[l - 1]"
         ELSE IF sr.docancellation /\ sr.l1 < 0 THEN "A[j][l1]"
         ELSE IF sr.l # k /\ k - 1 < 0 THEN "w[k1]"
         ELSE "")
    ELSE ""

(* its > SVD_NMAX: quit() reports the failure and exits. *)
NoConvergence ==
    /\ pc = "diag"
    /\ its + 1 > SVD_NMAX
    /\ its' = its + 1
    /\ pc' = "quit"
    /\ UNCHANGED <<n, m, mainlocals, A, w, V, A0, i, k, l, rv1, g, scale, tst1, oob, sortlocals, invslocals>>

(* A pass that ends with l # k: shift and QR transformation. *)
QRPass ==
    /\ pc = "diag"
    /\ its + 1 <= SVD_NMAX
    /\ OobAccess = ""
    /\ \E sr \in {Search} :
       /\ sr.l # k
       /\ \E ac \in {AfterCancellation(sr)} :
          \E x \in {ac.w[sr.l]} :
          \E f \in {Shift(x, ac.w[k - 1], ac.w[k], ac.rv1[k - 1], ac.rv1[k])} :
          \E qr \in {QRTransformation(sr.l, [c |-> One, s |-> One, f |-> f, x |-> x,
                                              A |-> ac.A, V |-> V, w |-> ac.w,
                                              rv1 |-> ac.rv1])} :
              /\ A' = qr.A
              /\ V' = qr.V
              /\ w' = [qr.w EXCEPT ![k] = qr.x]
              /\ rv1' = [[qr.rv1 EXCEPT ![sr.l] = Zero] EXCEPT ![k] = qr.f]
              /\ l' = sr.l
    /\ its' = its + 1
    /\ UNCHANGED <<n, m, mainlocals, A0, pc, i, k, g, scale, tst1, oob, sortlocals, invslocals>>

(* A pass that ends with l = k: w[k] is made non-negative, k is done. *)
Converged ==
    /\ pc = "diag"
    /\ its + 1 <= SVD_NMAX
    /\ OobAccess = ""
    /\ \E sr \in {Search} :
       /\ sr.l = k
       /\ \E ac \in {AfterCancellation(sr)} :
          \E z \in {ac.w[k]} :
              /\ A' = ac.A
              /\ rv1' = ac.rv1
              /\ IF FLt(z, Zero)
                 THEN /\ w' = [ac.w EXCEPT ![k] = FNeg(z)]
                      /\ V' = [r \in Cols |-> [V[r] EXCEPT ![k] = FNeg(V[r][k])]]
                 ELSE /\ w' = ac.w
                      /\ V' = V
    /\ l' = k
    /\ k' = k - 1
    /\ IF k > 0 THEN pc' = pc /\ its' = 0
                ELSE pc' = "done" /\ its' = its + 1
    /\ UNCHANGED <<n, m, mainlocals, A0, i, g, scale, tst1, oob, sortlocals, invslocals>>

(* An access outside an array: what the program does next is undefined. *)
Fault ==
    /\ pc \in {"right", "diag"}
    /\ OobAccess # ""
    /\ oob' = OobAccess
    /\ pc' = "fault"
    /\ UNCHANGED <<n, m, mainlocals, A, w, V, A0, i, k, l, its, rv1, g, scale, tst1, sortlocals, invslocals>>

(***************************************************************************)
(* svd_sort, with cmp_iv and sortvector.                                   *)
(***************************************************************************)
(* 4.0e-15 = 0x1.203af9ee75616p-48, rounded to the format. *)
SVD_EPS == Round(1, 73786, 0 - 64, TRUE)

(* A comparison that orders the values the other way round. *)
cmp_ascending(v1, v2) == IF FLt(v1, v2) THEN 0 - 1 ELSE IF FGt(v1, v2) THEN 1 ELSE 0

cmp_iv(v1, v2) == IF FGt(v1, v2) THEN 0 - 1 ELSE IF FLt(v1, v2) THEN 1 ELSE 0

(* The arrangements of the indexes 0..n-1. *)
Perms == {p \in [Cols -> Cols] : \A a, b \in Cols : a # b => p[a] # p[b]}

(* qsort with cmp_iv on the values v: the orders of the indexes it may     *)
(* leave.  The order of elements that compare equal is unspecified; with a *)
(* NaN among the values cmp_iv is not a consistent ordering and the order  *)
(* qsort leaves is not defined.                                            *)
qsort(v) ==
    IF \E j \in Cols : IsNaN(v[j]) THEN Perms
    ELSE {p \in Perms : \A a \in 0..(n - 2) : cmp_iv(v[p[a]], v[p[a + 1]]) <= 0}

(* The contents of pos that sortvector may leave. *)
sortvector(v) == qsort(v)

(* A test that also takes a ratio equal to SVD_EPS for negligible. *)
NegligibleOrAtFloor(x, wmax) == FLe(FDiv(x, wmax), SVD_EPS)

(* w[i] / wmax < SVD_EPS *)
Negligible(x, wmax) == FLt(FDiv(x, wmax), SVD_EPS)

(* M with its columns left where they are. *)
KeepColumns(M, p) == M

(* M with column j taken from column p[j]. *)
MoveColumns(M, p) == [r \in DOMAIN M |-> [j \in Cols |-> M[r][p[j]]]]

SvdSort ==
    /\ pc \in {"done", "sorted"}
    /\ calls < MaxCalls
    /\ wold' = w
    /\ aold' = A
    /\ vold' = V
    /\ \E p \in sortvector(w) : \E wmax \in {w[p[0]]} :
          /\ pos' = p
          /\ w' = [j \in Cols |-> IF Negligible(w[p[j]], wmax) THEN Zero ELSE w[p[j]]]
          /\ A' = MoveColumns(A, p)
          /\ V' = MoveColumns(V, p)
    /\ calls' = calls + 1
    /\ pc' = "sorted"
    /\ UNCHANGED <<n, m, mainlocals, svdlocals, invslocals>>

(***************************************************************************)
(* svd_invs                                                                *)
(***************************************************************************)
(* The first of two numbers, whichever is smaller. *)
First(a, b) == a

(* mnmin = (n < m) ? n : m *)
Min(a, b) == IF a < b THEN a ELSE b

SvdInvs ==
    /\ pc = "sorted"
    /\ \E mnmin \in {Min(n, m)} :
       \E vtemp \in {[j \in Cols |-> [c \in Cols |->
                        IF c < mnmin THEN FDiv(V[j][c], w[c]) ELSE V[j][c]]]} :
          /\ AT' = [r \in Cols |-> [j \in Rows |->
                      SumOver(LAMBDA c: FMul(vtemp[r][c], A[j][c]), 0, mnmin - 1, Zero)]]
          /\ divs' = 0..(mnmin - 1)
    /\ pc' = "inverted"
    /\ UNCHANGED <<n, m, mainlocals, A, w, V, svdlocals, sortlocals>>

(***************************************************************************)
(* Specification of svd: any m x n matrix of the input values.             *)
(***************************************************************************)
InputVals == {Zero, One, Huge}

(* The state outside svd_sort and svd_invs before their first call. *)
NotSortedYet ==
    /\ pos = [j \in Cols |-> j]
    /\ wold = w /\ aold = A /\ vold = V
    /\ calls = 0
    /\ AT = [r \in Cols |-> [j \in Rows |-> NaN]]
    /\ divs = {}

(* main between its lines 603 and 619: the matrices are allocated, W holds *)
(* the zeros of calloc, and line ln runs next.                             *)
InMain(ln) ==
    /\ line = ln
    /\ pj = 0 /\ pi = 0
    /\ W = [r \in 0..((IF n > m THEN n ELSE m) - 1) |-> [c \in Cols |-> Zero]]
    /\ outside = {}

(* The state in which svd is entered, for any input matrix. *)
SvdEntry ==
    /\ n \in 1..MaxN
    /\ m \in 1..MaxM
    /\ A \in [Rows -> [Cols -> InputVals]]
    /\ A0 = A
    /\ w = [j \in Cols |-> Zero]
    /\ V = [r \in Cols |-> [j \in Cols |-> Zero]]
    /\ rv1 = [j \in Cols |-> Zero]
    /\ pc = "householder"
    /\ i = 0 /\ k = 0 /\ l = 0 - 1 /\ its = 0
    /\ g = Zero /\ scale = Zero /\ tst1 = Zero
    /\ oob = ""
    /\ NotSortedYet

Init == SvdEntry /\ InMain(619)

Next ==
    \/ Householder
    \/ RightAccum
    \/ LeftAccum
    \/ QRPass
    \/ Converged
    \/ NoConvergence
    \/ Fault
Spec == Init /\ [][Next]_vars

(***************************************************************************)
(* Specification of svd_sort and svd_invs: a triad (A, w, V) as svd may    *)
(* return it, sorted up to MaxCalls times and then inverted.  The columns  *)
(* of A and of V carry different numbers, so that a moved column shows.    *)
(***************************************************************************)
HalfEps == FMul(SVD_EPS, Half)
SortVals == {Zero, One, FromInt(2), FromInt(0 - 1), SVD_EPS, HalfEps, Inf(1), NaN}

SortInit ==
    /\ n \in 1..MaxN
    /\ m \in 1..MaxM
    /\ w \in [Cols -> SortVals]
    /\ A = [r \in Rows |-> [j \in Cols |-> FromInt(1 + j + n * r)]]
    /\ V = [r \in Cols |-> [j \in Cols |-> FromInt(1 + j + n * r)]]
    /\ A0 = A
    /\ rv1 = [j \in Cols |-> Zero]
    /\ pc = "done"
    /\ i = 0 - 1 /\ k = 0 - 1 /\ l = 0 /\ its = 1
    /\ g = Zero /\ scale = Zero /\ tst1 = Zero
    /\ oob = ""
    /\ NotSortedYet
    /\ InMain(635)

SortNext ==
    \/ SvdSort
    \/ SvdInvs
SortSpec == SortInit /\ [][SortNext]_vars

(***************************************************************************)
(* Specification of main: the input is read, svd, svd_sort and svd_invs    *)
(* are called in turn, and the matrices are printed in between.  Every     *)
(* access of main and of matrix_print is compared with the numbers of rows *)
(* and columns the matrix was allocated with.                              *)
(***************************************************************************)
(* alloc2d(n1, n2, unitsize): n2 rows of n1 columns. *)
alloc2d(n1, n2) == [rows |-> n2, cols |-> n1]

mnmax == IF n > m THEN n ELSE m

(* The allocations of main. *)
Shape(arr) ==
    CASE arr = "A" -> alloc2d(n, m)
      [] arr = "AT" -> alloc2d(m, n)
      [] arr = "V" -> alloc2d(n, n)
      [] arr = "W" -> alloc2d(n, mnmax)

(* The access arr[r][c] made at line ln, when it is outside arr. *)
Outside(ln, arr, r, c) ==
    IF r \in 0..(Shape(arr).rows - 1) /\ c \in 0..(Shape(arr).cols - 1)
    THEN {}
    ELSE {[line |-> ln, arr |-> arr, row |-> r, col |-> c]}

(* The calls matrix_print(cols, rows, arr, "  ") of main, and the line     *)
(* that follows each.                                                      *)
PrintLines == {611, 627, 629, 631, 643, 645, 647, 654}
PrintCall(ln) ==
    CASE ln = 611 -> [cols |-> n, rows |-> m, arr |-> "A", next |-> 619]
      [] ln = 627 -> [cols |-> n, rows |-> m, arr |-> "A", next |-> 629]
      [] ln = 629 -> [cols |-> n, rows |-> n, arr |-> "W", next |-> 631]
      [] ln = 631 -> [cols |-> n, rows |-> n, arr |-> "V", next |-> 635]
      [] ln = 643 -> [cols |-> m, rows |-> m, arr |-> "A", next |-> 645]
      [] ln = 645 -> [cols |-> m, rows |-> n, arr |-> "W", next |-> 647]
      [] ln = 647 -> [cols |-> n, rows |-> n, arr |-> "V", next |-> 649]
      [] ln = 654 -> [cols |-> n, rows |-> m, arr |-> "AT", next |-> 661]

(* main, lines 606-608: A[j][i] = atof(argv[k]) for j < m and i < n; the   *)
(* values of argv are the entries A starts with.                           *)
ReadInput ==
    /\ line = 606
    /\ outside' = outside \cup UNION {Outside(608, "A", j, c) : j \in 0..(m - 1), c \in 0..(n - 1)}
    /\ line' = 611
    /\ UNCHANGED <<n, m, A, w, V, pc, svdlocals, sortlocals, invslocals, pj, pi, W>>

(* One pass of the inner loop of matrix_print: it reads A[j][i] and moves  *)
(* to the next column, the next row, or returns.  A read outside the       *)
(* matrix yields some value, or the process is killed.                     *)
matrix_print ==
    /\ line \in PrintLines
    /\ \E call \in {PrintCall(line)} : \E out \in {Outside(line, call.arr, pj, pi)} :
        /\ outside' = outside \cup out
        /\ \/ IF pi + 1 < call.cols
              THEN pi' = pi + 1 /\ pj' = pj /\ line' = line
              ELSE IF pj + 1 < call.rows
                   THEN pi' = 0 /\ pj' = pj + 1 /\ line' = line
                   ELSE pi' = 0 /\ pj' = 0 /\ line' = call.next
           \/ out # {} /\ line' = 0 /\ pj' = pj /\ pi' = pi
    /\ UNCHANGED <<n, m, A, w, V, pc, svdlocals, sortlocals, invslocals, W>>

(* main, line 619: the steps of svd. *)
CallSvd == line = 619 /\ Next

(* main, lines 623-624 and 639-640: W[i][i] = w[i] for i < n. *)
FillW ==
    /\ line \in {623, 639}
    /\ W' = [r \in DOMAIN W |-> [c \in Cols |-> IF r = c THEN w[r] ELSE W[r][c]]]
    /\ outside' = outside \cup UNION {Outside(line + 1, "W", c, c) : c \in 0..(n - 1)}
    /\ line' = (IF line = 623 THEN 627 ELSE 643)
    /\ UNCHANGED <<n, m, A, w, V, pc, svdlocals, sortlocals, invslocals, pj, pi>>

(* main, line 635: the one call of svd_sort. *)
CallSvdSort == line = 635 /\ calls = 0 /\ SvdSort

(* main, line 649: the call of svd_invs. *)
CallSvdInvs == line = 649 /\ SvdInvs

(* svd, svd_sort or svd_invs returns to main. *)
Return ==
    /\ \/ line = 619 /\ pc = "done" /\ line' = 623
       \/ line = 635 /\ pc = "sorted" /\ line' = 639
       \/ line = 649 /\ pc = "inverted" /\ line' = 654
    /\ UNCHANGED <<n, m, A, w, V, pc, svdlocals, sortlocals, invslocals, pj, pi, W, outside>>

MainInit == SvdEntry /\ InMain(606)

MainNext ==
    \/ ReadInput
    \/ matrix_print
    \/ CallSvd
    \/ FillW
    \/ CallSvdSort
    \/ CallSvdInvs
    \/ Return
MainSpec == MainInit /\ [][MainNext]_vars

(***************************************************************************)
(* Properties of svd, checked under Spec.                                  *)
(***************************************************************************)
(* (U diag(w) V^T)[r][c] with U = A as svd left it. *)
Reconstructed(r, c) ==
    SumOver(LAMBDA j: FMul(FMul(A[r][j], w[j]), V[c][j]), 0, n - 1, Zero)

(* The largest |M[r][c]|. *)
MaxAbs(M) ==
    CHOOSE x \in {FAbs(M[r][c]) : r \in Rows, c \in Cols} :
        \A r \in Rows, c \in Cols : FLe(FAbs(M[r][c]), x)

(* C1: when svd has returned normally, every entry of U diag(w) V^T is     *)
(* close to the entry of the input matrix.  The tolerance stated here is   *)
(* the largest entry of the input itself, which is looser than any small   *)
(* multiple of the machine epsilon times the norm of the input.            *)
C1_Reconstruction ==
    pc = "done" =>
        \A r \in Rows, c \in Cols :
            FLe(FAbs(FSub(A0[r][c], Reconstructed(r, c))), MaxAbs(A0))

Running == pc \in {"householder", "right", "left", "diag"}

(* C8: svd stops only by returning normally, every index having converged  *)
(* within SVD_NMAX passes, or by the fatal error raised at pass            *)
(* SVD_NMAX + 1.                                                           *)
C8_ReturnOrFatalError ==
    ~Running => \/ pc = "done" /\ its <= SVD_NMAX
                \/ pc = "quit" /\ its = SVD_NMAX + 1

(* C9: when svd has returned normally, every singular value is >= 0. *)
C9_NonNegative == pc = "done" => \A j \in Cols : FGe(w[j], Zero)

(* C10: no array access of svd leaves its array. *)
C10_InBounds == oob = ""

(***************************************************************************)
(* Properties of svd_sort and svd_invs, checked under SortSpec.            *)
(***************************************************************************)
NoNaN(v) == \A j \in Cols : ~IsNaN(v[j])
Descending(v) == \A a \in 0..(n - 2) : FGe(v[a], v[a + 1])
Identity == [j \in Cols |-> j]
(* Entry j of w was replaced by 0 in the last call of svd_sort. *)
Thresholded(j) == ~IsZero(wold[pos[j]]) /\ IsZero(w[j])

(* C2, as the spec states it: after svd_sort the singular values are in    *)
(* descending order, whatever the values of the input vector.              *)
C2_DescendingAnyInput == calls >= 1 => Descending(w)

(* C2, amended: after svd_sort of a vector without NaN the singular values *)
(* are in descending order, ties and thresholded entries included.         *)
C2_Descending == calls >= 1 /\ NoNaN(wold) => Descending(w)

C2_Witness ==
    /\ calls >= 1 /\ NoNaN(wold) /\ n >= 3
    /\ pos # Identity
    /\ \E a \in 0..(n - 2) : w[a] = w[a + 1]
    /\ \E j \in Cols : Thresholded(j)

(* C3: after svd_sort there is one arrangement p of the indexes 0..n-1     *)
(* such that column j of A is the old column p[j] of A, column j of V is   *)
(* the old column p[j] of V, and w[j] is the old w[p[j]] or 0.             *)
C3_OnePermutation ==
    calls >= 1 =>
        \E p \in Perms : \A j \in Cols :
            /\ \A r \in Rows : A[r][j] = aold[r][p[j]]
            /\ \A r \in Cols : V[r][j] = vold[r][p[j]]
            /\ w[j] = wold[p[j]] \/ w[j] = Zero

C3_Witness ==
    /\ calls >= 1 /\ n >= 3
    /\ pos # Identity /\ pos[0] # 0
    /\ \E j \in Cols : Thresholded(j)
    /\ \E j \in Cols : ~IsZero(w[j]) /\ pos[j] # j

(* C4: after svd_sort every entry whose ratio to w[0] is below SVD_EPS is  *)
(* exactly 0, every entry whose ratio is at or above SVD_EPS has kept its  *)
(* value, and w, A and V have kept their sizes.                            *)
C4_Thresholding ==
    calls >= 1 =>
        /\ \A j \in Cols :
              /\ FLt(FDiv(wold[pos[j]], w[0]), SVD_EPS) => w[j] = Zero
              /\ FGe(FDiv(wold[pos[j]], w[0]), SVD_EPS) => w[j] = wold[pos[j]]
        /\ DOMAIN w = Cols
        /\ DOMAIN A = Rows /\ \A r \in Rows : DOMAIN A[r] = Cols
        /\ DOMAIN V = Cols /\ \A r \in Cols : DOMAIN V[r] = Cols

C4_Witness ==
    /\ calls >= 1 /\ n >= 3
    /\ \E j \in Cols : Thresholded(j) /\ FGt(wold[pos[j]], Zero)
    /\ \E j \in Cols : j > 0 /\ FEq(FDiv(wold[pos[j]], w[0]), SVD_EPS) /\ w[j] = wold[pos[j]]

(* C5: a second call of svd_sort, on the triad the first call returned,    *)
(* leaves w, A and V as they were (stated for vectors without NaN).        *)
C5_SecondSortNoOp ==
    calls = 2 /\ NoNaN(wold) => w = wold /\ A = aold /\ V = vold

(* C6: after svd_invs, every AT[r][j], r < n and j < m, is the sum over    *)
(* c < min(n, m) of (V[r][c] / w[c]) * A[j][c], and AT has n rows of m     *)
(* entries.                                                                *)
C6_PseudoInverse ==
    pc = "inverted" =>
        /\ DOMAIN AT = Cols
        /\ \A r \in Cols :
              /\ DOMAIN AT[r] = Rows
              /\ \A j \in Rows :
                    AT[r][j] = SumOver(LAMBDA c: FMul(FDiv(V[r][c], w[c]), A[j][c]),
                                       0, (IF n < m THEN n ELSE m) - 1, Zero)

C6_Witness ==
    /\ pc = "inverted" /\ n > m /\ m >= 2
    /\ \A r \in Cols, j \in Rows : IsFin(AT[r][j]) /\ ~IsZero(AT[r][j])

(* C7: svd_invs divides by no w[c], c < min(n, m), that is exactly 0. *)
C7_NoDivisionByZero ==
    pc = "inverted" => \A c \in divs : ~IsZero(w[c])

(***************************************************************************)
(* Properties of main, checked under MainSpec.                             *)
(***************************************************************************)
(* C11: every matrix element main and matrix_print read or write lies      *)
(* inside the numbers of rows and columns the matrix was allocated with.   *)
C11_MainInBounds == outside = {}
=============================================================================
